---------------------------- MODULE Spec2Model ----------------------------
(***************************************************************************)
(* A model of tools/mdt_decoder.py: the MDT route string decoder.          *)
(*                                                                         *)
(* Representation.  A Python str is a sequence of code points and a bytes  *)
(* object is a sequence of integers 0..255.  A dict is a TLA+ function     *)
(* whose domain is the dict's key set.  A float that results from          *)
(* round(x, 2) is held as its integer number of hundredths.                *)
(***************************************************************************)
EXTENDS Integers, Sequences, FiniteSets, Bags, TLC

(***************************************************************************)
(* Bounds of the model.                                                    *)
(***************************************************************************)
\* longest string of the exhaustive short-string inputs
MaxLen == 3
\* longest byte sequence of the exhaustive encoder inputs
MaxBytes == 2
\* most pieces concatenated into a serialized payload
MaxPieces == 2
\* most leading sentinel characters put before an encoded stream
MaxSentinels == 2
\* how far past the excerpt length the long inputs go
MaxOver == 2
\* number of concurrent decode calls in SpecConc
NumCalls == 2

(***************************************************************************)
(* Generic helpers on sequences.                                           *)
(***************************************************************************)
Range(s) == {s[i] : i \in 1..Len(s)}

Repeat(ch, n) == [i \in 1..n |-> ch]

\* s[:n]
Take(s, n) == SubSeq(s, 1, IF n < Len(s) THEN n ELSE Len(s))

\* s[n:]
Drop(s, n) == SubSeq(s, n + 1, Len(s))

\* s.startswith(p)
StartsWith(s, p) == Len(s) >= Len(p) /\ SubSeq(s, 1, Len(p)) = p

\* s.endswith(p)
EndsWith(s, p) == Len(s) >= Len(p) /\ SubSeq(s, Len(s) - Len(p) + 1, Len(s)) = p

\* p in s  (substring test)
Contains(s, p) == \E i \in 0..(Len(s) - Len(p)) : SubSeq(s, i + 1, i + Len(p)) = p

RECURSIVE Concat(_)
Concat(ss) == IF ss = <<>> THEN <<>> ELSE Head(ss) \o Concat(Tail(ss))

\* all sequences over S of length at most n
SeqsUpTo(S, n) == UNION {[1..k -> S] : k \in 0..n}

(***************************************************************************)
(* Text literals of the source, as code points.                            *)
(***************************************************************************)
Bang == 33
Equals == 61
Slash == 47
Backslash == 92
DotTxt == <<46, 116, 120, 116>>
VersionHeader == <<1, 0>>
WeekStr == <<119, 101, 101, 107>>
ObjectsStr == <<111, 98, 106, 101, 99, 116, 115>>
PullsStr == <<112, 117, 108, 108, 115>>
Ellipsis == <<46, 46, 46>>
ExcerptLen == 100

(***************************************************************************)
(* The alphabet stage.                                                     *)
(***************************************************************************)
\* "abcdefghijklmnopqrstuvwxyzABCDEFGHIJKLMNOPQRSTUVWXYZ0123456789()"
AlphabetLiteral ==
    [i \in 1..64 |->
        IF i <= 26 THEN 96 + i
        ELSE IF i <= 52 THEN 64 + (i - 26)
        ELSE IF i <= 62 THEN 47 + (i - 52)
        ELSE IF i = 63 THEN 40 ELSE 41]

VARIABLES
    B64_ALPHABET        \* the module-level alphabet string

\* {char: idx for idx, char in enumerate(B64_ALPHABET)}; a later duplicate
\* of a character would overwrite an earlier one
create_b64_decode_table ==
    [ch \in Range(B64_ALPHABET) |->
        (CHOOSE i \in 1..Len(B64_ALPHABET) :
            /\ B64_ALPHABET[i] = ch
            /\ \A j \in 1..Len(B64_ALPHABET) : B64_ALPHABET[j] = ch => j <= i) - 1]

\* encoded_str.rstrip(ch)
RECURSIVE rstrip(_, _)
rstrip(s, ch) ==
    IF s # <<>> /\ s[Len(s)] = ch THEN rstrip(SubSeq(s, 1, Len(s) - 1), ch) ELSE s

\* format(v, '06b'): at least six binary digits, most significant first
RECURSIVE BinDigits(_)
BinDigits(v) == IF v < 2 THEN <<v>> ELSE BinDigits(v \div 2) \o <<v % 2>>

\* a faulty variant, format(v, 'b'): no zero fill to six digits
format_b(v) == BinDigits(v)

format_06b(v) ==
    LET d == BinDigits(v)
    IN  IF Len(d) >= 6 THEN d ELSE Repeat(0, 6 - Len(d)) \o d

\* a faulty variant: the chunk read least significant bit first
RECURSIVE int_base2_lsb(_)
int_base2_lsb(chunk) ==
    IF chunk = <<>> THEN 0 ELSE chunk[1] + 2 * int_base2_lsb(Tail(chunk))

\* int(chunk, 2)
RECURSIVE int_base2(_)
int_base2(chunk) ==
    IF chunk = <<>> THEN 0
    ELSE 2 * int_base2(SubSeq(chunk, 1, Len(chunk) - 1)) + chunk[Len(chunk)]

\* the first loop of decode_custom_b64: what its iterations lo..hi append to
\* binary_str, in order (the iterations are split in halves, so the
\* evaluation nests only logarithmically deep)
RECURSIVE BinaryStrLoop(_, _, _, _)
BinaryStrLoop(padding_removed, decode_table, lo, hi) ==
    IF lo > hi THEN <<>>
    ELSE IF lo = hi
    THEN LET char == padding_removed[lo]
         IN  IF char \in DOMAIN decode_table
             THEN format_06b(decode_table[char])
             ELSE <<>>
    ELSE LET mid == (lo + hi) \div 2
         IN  BinaryStrLoop(padding_removed, decode_table, lo, mid)
                 \o BinaryStrLoop(padding_removed, decode_table, mid + 1, hi)

\* len(range(0, stop, step))
RangeLen(stop, step) == IF stop <= 0 THEN 0 ELSE (stop + step - 1) \div step

\* the second loop, for i in range(0, len(binary_str) - 7, 8): what its
\* iterations lo..hi (i = 8 * k for the k-th, from 0) append to byte_data
RECURSIVE ByteLoop(_, _, _)
ByteLoop(binary_str, lo, hi) ==
    IF lo > hi THEN <<>>
    ELSE IF lo = hi
    THEN LET i == 8 * lo
             byte_chunk == SubSeq(binary_str, i + 1,
                               IF i + 8 <= Len(binary_str) THEN i + 8 ELSE Len(binary_str))
         IN  IF Len(byte_chunk) = 8 THEN <<int_base2(byte_chunk)>> ELSE <<>>
    ELSE LET mid == (lo + hi) \div 2
         IN  ByteLoop(binary_str, lo, mid) \o ByteLoop(binary_str, mid + 1, hi)

decode_custom_b64(encoded_str) ==
    LET decode_table == create_b64_decode_table
        padding_removed == rstrip(encoded_str, Equals)
        binary_str == BinaryStrLoop(padding_removed, decode_table, 1, Len(padding_removed))
    IN  ByteLoop(binary_str, 0, RangeLen(Len(binary_str) - 7, 8) - 1)

(***************************************************************************)
(* The decompression stage.  zlib.decompress is the zlib library's inflate *)
(* of a zlib-wrapped stream (RFC 1950/1951).  The header checks, stored    *)
(* (BTYPE 00) blocks, the reserved block type and the Adler-32 trailer are *)
(* modelled as the library performs them; a Huffman-coded block            *)
(* (BTYPE 01, 10) is reported as kind "huffman" and the inputs of the      *)
(* specifications are restricted to streams that never reach one.          *)
(***************************************************************************)
ZTruncated == "Error -5 while decompressing data: incomplete or truncated stream"
ZHeaderCheck == "Error -3 while decompressing data: incorrect header check"
ZMethod == "Error -3 while decompressing data: unknown compression method"
ZWindow == "Error -3 while decompressing data: invalid window size"
ZNeedDict == "Error 2 while decompressing data"
ZBlockType == "Error -3 while decompressing data: invalid block type"
ZStoredLen == "Error -3 while decompressing data: invalid stored block lengths"
ZDataCheck == "Error -3 while decompressing data: incorrect data check"

\* the outcome of a call: the bytes returned, or the exception raised
ZOk(data) == [kind |-> "ok", data |-> data, type |-> "", msg |-> ""]
Raise(type, msg) == [kind |-> "error", data |-> <<>>, type |-> type, msg |-> msg]
ZErr(msg) == Raise("zlib.error", msg)
ZHuffman == [kind |-> "huffman", data |-> <<>>, type |-> "", msg |-> ""]

\* Adler-32 as its two 16-bit halves <<s2, s1>> (s2 is the high half)
RECURSIVE AdlerLoop(_, _, _, _)
AdlerLoop(data, i, s1, s2) ==
    IF i > Len(data) THEN <<s2, s1>>
    ELSE LET t == (s1 + data[i]) % 65521
         IN  AdlerLoop(data, i + 1, t, (s2 + t) % 65521)

Adler32(data) == AdlerLoop(data, 1, 1, 0)

\* the four trailer bytes after pos, big-endian
InflateTrailer(z, pos, out) ==
    IF Len(z) < pos + 4 THEN ZErr(ZTruncated)
    ELSE IF <<z[pos + 1] * 256 + z[pos + 2], z[pos + 3] * 256 + z[pos + 4]>> # Adler32(out)
    THEN ZErr(ZDataCheck)
    ELSE ZOk(out)

\* the deflate blocks from byte offset pos on
RECURSIVE InflateBlocks(_, _, _)
InflateBlocks(z, pos, out) ==
    IF Len(z) < pos + 1 THEN ZErr(ZTruncated)
    ELSE LET bfinal == z[pos + 1] % 2
             btype == (z[pos + 1] \div 2) % 4
         IN  IF btype = 3 THEN ZErr(ZBlockType)
             ELSE IF btype # 0 THEN ZHuffman
             ELSE IF Len(z) < pos + 5 THEN ZErr(ZTruncated)
             ELSE LET len == z[pos + 2] + 256 * z[pos + 3]
                      nlen == z[pos + 4] + 256 * z[pos + 5]
                  IN  IF len + nlen # 65535 THEN ZErr(ZStoredLen)
                      ELSE IF Len(z) < pos + 5 + len THEN ZErr(ZTruncated)
                      ELSE LET out2 == out \o SubSeq(z, pos + 6, pos + 5 + len)
                           IN  IF bfinal = 1
                               THEN InflateTrailer(z, pos + 5 + len, out2)
                               ELSE InflateBlocks(z, pos + 5 + len, out2)

\* zlib.decompress(z): bytes after the end of the stream are ignored
zlib_decompress(z) ==
    IF Len(z) < 2 THEN ZErr(ZTruncated)
    ELSE IF (z[1] * 256 + z[2]) % 31 # 0 THEN ZErr(ZHeaderCheck)
    ELSE IF z[1] % 16 # 8 THEN ZErr(ZMethod)
    ELSE IF (z[1] \div 16) + 8 > 15 THEN ZErr(ZWindow)
    ELSE IF (z[2] \div 32) % 2 = 1
    THEN (IF Len(z) < 6 THEN ZErr(ZTruncated) ELSE ZErr(ZNeedDict))
    ELSE InflateBlocks(z, 2, <<>>)

\* decompress_data: except zlib.error as e: raise ValueError(...)
decompress_data(compressed_data) ==
    LET r == zlib_decompress(compressed_data)
    IN  IF r.kind = "error" /\ r.type = "zlib.error"
        THEN Raise("ValueError", "Decompression failed: " \o r.msg)
        ELSE r

(***************************************************************************)
(* The deserializer stage.                                                 *)
(***************************************************************************)
HexDigit(d) == IF d < 10 THEN 48 + d ELSE 87 + d

\* one character of str.encode('unicode_escape')
EscapeChar(c) ==
    IF c = Backslash THEN <<Backslash, Backslash>>
    ELSE IF c = 9 THEN <<Backslash, 116>>
    ELSE IF c = 10 THEN <<Backslash, 110>>
    ELSE IF c = 13 THEN <<Backslash, 114>>
    ELSE IF c >= 32 /\ c < 127 THEN <<c>>
    ELSE <<Backslash, 120, HexDigit(c \div 16), HexDigit(c % 16)>>

\* data.encode('unicode_escape').decode('ascii'), for code points below 256
unicode_escape(data) == Concat([i \in 1..Len(data) |-> EscapeChar(data[i])])

\* bytes.decode('latin-1'): every byte is the code point of one character
latin1_decode(bytes) == [i \in 1..Len(bytes) |-> bytes[i]]

NoKeys == [k \in {} |-> TRUE]

\* the exceptions the try body of parse_ace_serialized_data raises on a str:
\* startswith, slicing, encode('unicode_escape'), decode('ascii') of its
\* output and the three substring tests raise none
parse_try_raises(data) == <<>>

\* a faulty variant: the header removed as often as it repeats
RECURSIVE strip_version_all(_)
strip_version_all(data) ==
    IF StartsWith(data, VersionHeader) THEN strip_version_all(Drop(data, 2)) ELSE data

\* if data.startswith('\x01\x00'): data = data[2:]
strip_version(data) == IF StartsWith(data, VersionHeader) THEN Drop(data, 2) ELSE data

parse_ace_serialized_data(data) ==
    LET stripped == strip_version(data)
        raised == parse_try_raises(data)
    IN  IF raised # <<>>
        THEN [error |-> "Failed to parse serialized data: " \o raised[1],
              raw_data |-> unicode_escape(data)]
        ELSE [format |-> "AceSerializer",
              raw_data |-> unicode_escape(stripped),
              parsed_data |-> "Partial parsing - full AceSerializer implementation needed"]
             @@ (IF Contains(stripped, WeekStr) THEN [contains_week_info |-> TRUE] ELSE NoKeys)
             @@ (IF Contains(stripped, ObjectsStr) THEN [contains_objects |-> TRUE] ELSE NoKeys)
             @@ (IF Contains(stripped, PullsStr) THEN [contains_pulls |-> TRUE] ELSE NoKeys)

(***************************************************************************)
(* Result assembly.                                                        *)
(***************************************************************************)
\* a faulty variant: route_string.lstrip('!')
RECURSIVE strip_all_markers(_)
strip_all_markers(route_string) ==
    IF StartsWith(route_string, <<Bang>>) THEN strip_all_markers(Drop(route_string, 1))
    ELSE route_string

\* route_string[1:] if route_string.startswith('!') else route_string
strip_marker(route_string) ==
    IF StartsWith(route_string, <<Bang>>) THEN Drop(route_string, 1) ELSE route_string

\* round(c / d, 2) in hundredths, d > 0.  Python rounds the double nearest
\* c/d to the nearest hundredth, an exact tie to the even one; for d < 40 a
\* tie of c/d is a multiple of 1/8, which the double holds exactly.
round2(c, d) ==
    LET q == (100 * c) \div d
        r == (100 * c) % d
    IN  IF 2 * r < d THEN q
        ELSE IF 2 * r > d THEN q + 1
        ELSE IF q % 2 = 0 THEN q ELSE q + 1

\* the dict of step 5
success_result(route_string, compressed_data, decompressed_data, parsed_data) ==
    [metadata |->
        [original_length |-> Len(route_string),
         compressed_length |-> Len(compressed_data),
         decompressed_length |-> Len(decompressed_data),
         compression_ratio |-> round2(Len(compressed_data), Len(decompressed_data))],
     route_data |-> parsed_data]

\* a faulty variant: the input passed on whole
excerpt_whole(route_string) == route_string

\* route_string[:100] + "..." if len(route_string) > 100 else route_string
excerpt(route_string) ==
    IF Len(route_string) > ExcerptLen
    THEN Take(route_string, ExcerptLen) \o Ellipsis
    ELSE route_string

\* the dict of the except clause; e is the exception's message
failure_result(e, route_string) ==
    [error |-> "Failed to decode route string: " \o e,
     original_string |-> excerpt(route_string)]

\* a faulty variant: except ValueError
except_ValueError(type) == type = "ValueError"

\* except Exception: the classes raised here that derive from Exception
except_Exception(type) == type \in {"ValueError", "ZeroDivisionError", "zlib.error"}

\* where a call goes when a statement of its try block raises
on_raise(type) == IF except_Exception(type) THEN "except" ELSE "raised"

\* decode_mdt_route_string run from call to return on its own
decode_mdt_route_string(route_string) ==
    LET encoded_data == strip_marker(route_string)
        compressed_data == decode_custom_b64(encoded_data)
        z == decompress_data(compressed_data)
        decompressed_data == z.data
        serialized_str == latin1_decode(decompressed_data)
        parsed_data == parse_ace_serialized_data(serialized_str)
    IN  IF z.kind # "ok" /\ except_Exception(z.type)
        THEN failure_result(z.msg, route_string)
        ELSE IF Len(decompressed_data) = 0 /\ except_Exception("ZeroDivisionError")
        THEN failure_result("division by zero", route_string)
        ELSE success_result(route_string, compressed_data, decompressed_data, parsed_data)

(***************************************************************************)
(* main's helpers.                                                         *)
(***************************************************************************)
\* str.isspace() for a code point below 256
IsSpace(c) == c \in {9, 10, 11, 12, 13, 28, 29, 30, 31, 32, 133, 160}

RECURSIVE lstrip_space(_)
lstrip_space(s) == IF s # <<>> /\ IsSpace(s[1]) THEN lstrip_space(Tail(s)) ELSE s

RECURSIVE rstrip_space(_)
rstrip_space(s) ==
    IF s # <<>> /\ IsSpace(s[Len(s)]) THEN rstrip_space(SubSeq(s, 1, Len(s) - 1)) ELSE s

\* f.read().strip()
str_strip(s) == rstrip_space(lstrip_space(s))

\* a faulty variant: only the extension is looked at
is_file_path_ext(input_arg) == EndsWith(input_arg, DotTxt)

\* input_arg.endswith('.txt') or '/' in input_arg or '\\' in input_arg
is_file_path(input_arg) ==
    \/ EndsWith(input_arg, DotTxt)
    \/ Slash \in Range(input_arg)
    \/ Backslash \in Range(input_arg)

UsageLines ==
    SetToBag({<<"Usage: python mdt_decoder.py <route_string_or_file>">>,
              <<"Example: python mdt_decoder.py rt1.txt">>,
              <<"Example: python mdt_decoder.py '!fBvtpUjmq0FrbH)aS9X...'">>})

(***************************************************************************)
(* Inputs of the specifications.                                           *)
(***************************************************************************)
\* the bits of a byte sequence, most significant first
BitsOf(b) == [k \in 1..(8 * Len(b)) |-> (b[(k - 1) \div 8 + 1] \div 2^(7 - ((k - 1) % 8))) % 2]

\* the encoder of the route string format: 6-bit big-endian groups of the
\* bits of b, the last group zero-filled, each written as its alphabet symbol
EncodeB64(b) ==
    LET bits == BitsOf(b)
        n == (Len(bits) + 5) \div 6
        padded == bits \o Repeat(0, 6 * n - Len(bits))
        group(k) == 32 * padded[6 * k - 5] + 16 * padded[6 * k - 4] + 8 * padded[6 * k - 3]
                    + 4 * padded[6 * k - 2] + 2 * padded[6 * k - 1] + padded[6 * k]
    IN  [k \in 1..n |-> AlphabetLiteral[group(k) + 1]]

\* one stored deflate block holding p
StoredBlock(final, p) ==
    <<final, Len(p) % 256, Len(p) \div 256, 255 - (Len(p) % 256), 255 - (Len(p) \div 256)>> \o p

AdlerBytes(p) ==
    LET a == Adler32(p)
    IN  <<a[1] \div 256, a[1] % 256, a[2] \div 256, a[2] % 256>>

\* a zlib stream that stores p uncompressed
ZlibStored(p) == <<120, 1>> \o StoredBlock(1, p) \o AdlerBytes(p)

TableOpen == <<94, 84>>
TableClose == <<94, 116>>

\* the pieces serialized payloads are put together from
Pieces ==
    {VersionHeader, WeekStr, ObjectsStr, PullsStr, TableOpen, TableClose,
     <<119, 101, 101>>, <<Backslash, 10, 233>>}

Payloads == {Concat(ps) : ps \in SeqsUpTo(Pieces, MaxPieces)}

\* damaged and unusual streams around the stream of one open table marker
BaseStream == ZlibStored(TableOpen)

DamagedStreams ==
    {z \in
        {[BaseStream EXCEPT ![i] = (@ + 1) % 256] : i \in 1..Len(BaseStream)}
        \cup {Take(BaseStream, n) : n \in 0..(Len(BaseStream) - 1)}
        \cup {BaseStream \o <<0>>,
              <<120, 1>> \o StoredBlock(0, <<94>>) \o StoredBlock(1, <<84>>)
                  \o AdlerBytes(TableOpen),
              <<120, 32, 0, 0, 0, 1>>, <<120, 32, 0>>, <<136, 28, 1>>, <<0, 0, 1>>, <<120, 1, 7>>,
              ZlibStored(<<1, 2, 3, 4, 5, 6, 7, 8>>)} :
        zlib_decompress(z).kind # "huffman"}

SmallChars == {97, 69, 41, Bang, Equals}
ShortStrings == SeqsUpTo(SmallChars, MaxLen)

SmallBytes == {0, 1, 120, 255}
RoundTripBytes == SeqsUpTo(SmallBytes, MaxBytes)

StreamStrings ==
    {Repeat(Bang, k) \o EncodeB64(z) :
        k \in 0..MaxSentinels, z \in {ZlibStored(p) : p \in Payloads} \cup DamagedStreams}

LongStrings ==
    {base \o Repeat(ch, n - Len(base)) :
        base \in {<<>>, <<Bang>>, EncodeB64(BaseStream), EncodeB64(ZlibStored(<<>>))},
        ch \in {97, 32},
        n \in (ExcerptLen - 1)..(ExcerptLen + MaxOver)}

DirectStrings ==
    ShortStrings \cup {EncodeB64(b) : b \in RoundTripBytes} \cup StreamStrings \cup LongStrings

\* "rt1.txt", "a/b", "a\b"
Paths == {<<114, 116, 49>> \o DotTxt, <<97, Slash, 98>>, <<97, Backslash, 98>>}

FileTexts ==
    {<<>>, <<32, 10>>} \cup
    {pre \o s \o <<10>> :
        pre \in {<<>>, <<32>>},
        s \in {EncodeB64(BaseStream), <<Bang>> \o EncodeB64(ZlibStored(<<>>)), <<97, 32, 97>>}}

FileStates ==
    {[state |-> "missing", text |-> <<>>], [state |-> "unreadable", text |-> <<>>]}
    \cup {[state |-> "text", text |-> t] : t \in FileTexts}

ProgName == <<109, 100, 116>>

ConcInputs ==
    {EncodeB64(BaseStream), <<Bang>> \o EncodeB64(BaseStream),
     <<Bang, Bang>> \o EncodeB64(BaseStream),
     EncodeB64(ZlibStored(<<>>)), <<97, 97, 97>>, <<Bang, 97, 97, 97>>}

(***************************************************************************)
(* State.                                                                  *)
(***************************************************************************)
VARIABLES
    argv,               \* sys.argv
    fs,                 \* what open(input_arg) finds
    main_pc,            \* main's position
    input_arg,          \* main's local
    main_route_string,  \* main's local route_string
    stdout,             \* the lines printed, as a bag
    arg,                \* arg[c]: the string call c is made with
    pc,                 \* pc[c]: the position of call c
    route_string,       \* the locals of decode_mdt_route_string, per frame
    encoded_data,
    compressed_data,
    decompressed_data,
    parsed_data,
    result,
    e,                  \* the exception raised in the try block: its class and message
    returned            \* returned[c]: the values call c has returned

main_vars == <<argv, fs, main_pc, input_arg, main_route_string>>
locals == <<route_string, encoded_data, compressed_data, decompressed_data, parsed_data, result, e>>
vars == <<B64_ALPHABET, main_vars, stdout, arg, pc, locals, returned>>

Calls == DOMAIN pc

\* a faulty variant: the locals kept in one module-level place
SharedFrame(c) == 1

\* the frame that holds the locals of call c: every call has its own
Frame(c) == c

print(lines) == stdout' = stdout (+) lines

Line(l) == SetToBag({l})

(***************************************************************************)
(* decode_mdt_route_string, statement by statement.                        *)
(***************************************************************************)
\* the call binds the parameter
DecodeEnter(c) ==
    /\ pc[c] = "enter"
    /\ route_string' = [route_string EXCEPT ![Frame(c)] = arg[c]]
    /\ pc' = [pc EXCEPT ![c] = "strip"]
    /\ UNCHANGED <<B64_ALPHABET, main_vars, stdout, arg, encoded_data, compressed_data,
                   decompressed_data, parsed_data, result, e, returned>>

\* step 1
DecodeStrip(c) ==
    /\ pc[c] = "strip"
    /\ encoded_data' = [encoded_data EXCEPT ![Frame(c)] = strip_marker(route_string[Frame(c)])]
    /\ pc' = [pc EXCEPT ![c] = "b64"]
    /\ UNCHANGED <<B64_ALPHABET, main_vars, stdout, arg, route_string, compressed_data,
                   decompressed_data, parsed_data, result, e, returned>>

\* step 2
DecodeB64(c) ==
    /\ pc[c] = "b64"
    /\ LET bytes == decode_custom_b64(encoded_data[Frame(c)])
       IN  /\ compressed_data' = [compressed_data EXCEPT ![Frame(c)] = bytes]
           /\ print(Line(<<"Decoding Base64...">>) (+) Line(<<"Decoded", Len(bytes), "bytes">>))
    /\ pc' = [pc EXCEPT ![c] = "decompress"]
    /\ UNCHANGED <<B64_ALPHABET, main_vars, arg, route_string, encoded_data,
                   decompressed_data, parsed_data, result, e, returned>>

\* step 3
DecodeDecompress(c) ==
    /\ pc[c] = "decompress"
    /\ LET z == decompress_data(compressed_data[Frame(c)])
       IN  IF z.kind = "ok"
           THEN /\ decompressed_data' = [decompressed_data EXCEPT ![Frame(c)] = z.data]
                /\ print(Line(<<"Decompressing data...">>)
                         (+) Line(<<"Decompressed to", Len(z.data), "bytes">>))
                /\ pc' = [pc EXCEPT ![c] = "parse"]
                /\ e' = e
           ELSE /\ e' = [e EXCEPT ![Frame(c)] = [type |-> z.type, msg |-> z.msg]]
                /\ print(Line(<<"Decompressing data...">>))
                /\ pc' = [pc EXCEPT ![c] = on_raise(z.type)]
                /\ decompressed_data' = decompressed_data
    /\ UNCHANGED <<B64_ALPHABET, main_vars, arg, route_string, encoded_data,
                   compressed_data, parsed_data, result, returned>>

\* step 4
DecodeParse(c) ==
    /\ pc[c] = "parse"
    /\ LET serialized_str == latin1_decode(decompressed_data[Frame(c)])
       IN  parsed_data' = [parsed_data EXCEPT ![Frame(c)] = parse_ace_serialized_data(serialized_str)]
    /\ print(Line(<<"Parsing serialized data...">>))
    /\ pc' = [pc EXCEPT ![c] = "assemble"]
    /\ UNCHANGED <<B64_ALPHABET, main_vars, arg, route_string, encoded_data,
                   compressed_data, decompressed_data, result, e, returned>>

\* step 5: the division raises ZeroDivisionError when nothing was decompressed
DecodeAssemble(c) ==
    /\ pc[c] = "assemble"
    /\ IF Len(decompressed_data[Frame(c)]) = 0
       THEN /\ e' = [e EXCEPT ![Frame(c)] =
                   [type |-> "ZeroDivisionError", msg |-> "division by zero"]]
            /\ pc' = [pc EXCEPT ![c] = on_raise("ZeroDivisionError")]
            /\ result' = result
       ELSE /\ result' = [result EXCEPT ![Frame(c)] =
                   success_result(route_string[Frame(c)], compressed_data[Frame(c)],
                                  decompressed_data[Frame(c)], parsed_data[Frame(c)])]
            /\ pc' = [pc EXCEPT ![c] = "return"]
            /\ e' = e
    /\ UNCHANGED <<B64_ALPHABET, main_vars, stdout, arg, route_string, encoded_data,
                   compressed_data, decompressed_data, parsed_data, returned>>

\* return result
DecodeReturn(c) ==
    /\ pc[c] = "return"
    /\ returned' = [returned EXCEPT ![c] = Append(@, result[Frame(c)])]
    /\ pc' = [pc EXCEPT ![c] = "done"]
    /\ UNCHANGED <<B64_ALPHABET, main_vars, stdout, arg, locals>>

\* except Exception as e: return {...}
DecodeExcept(c) ==
    /\ pc[c] = "except"
    /\ returned' = [returned EXCEPT ![c] =
           Append(@, failure_result(e[Frame(c)].msg, route_string[Frame(c)]))]
    /\ pc' = [pc EXCEPT ![c] = "done"]
    /\ UNCHANGED <<B64_ALPHABET, main_vars, stdout, arg, locals>>

(***************************************************************************)
(* main, statement by statement.                                           *)
(***************************************************************************)
\* if len(sys.argv) != 2: usage, return
MainArgs ==
    /\ main_pc = "start"
    /\ IF Len(argv) # 2
       THEN /\ print(UsageLines)
            /\ main_pc' = "exit"
            /\ input_arg' = input_arg
       ELSE /\ input_arg' = argv[2]
            /\ main_pc' = "classify"
            /\ stdout' = stdout
    /\ UNCHANGED <<B64_ALPHABET, argv, fs, main_route_string, arg, pc, locals, returned>>

\* a file path is read, anything else is the route string itself
MainInput ==
    /\ main_pc = "classify"
    /\ IF is_file_path(input_arg)
       THEN CASE fs.state = "missing" ->
                    /\ print(Line(<<"Error: File not found", input_arg>>))
                    /\ main_pc' = "exit"
                    /\ main_route_string' = main_route_string
              [] fs.state = "unreadable" ->
                    /\ print(Line(<<"Error reading file">>))
                    /\ main_pc' = "exit"
                    /\ main_route_string' = main_route_string
              [] fs.state = "text" ->
                    /\ main_route_string' = str_strip(fs.text)
                    /\ main_pc' = "decode"
                    /\ stdout' = stdout
       ELSE /\ main_route_string' = input_arg
            /\ main_pc' = "decode"
            /\ stdout' = stdout
    /\ UNCHANGED <<B64_ALPHABET, argv, fs, input_arg, arg, pc, locals, returned>>

\* result = decode_mdt_route_string(route_string): the call
MainDecode ==
    /\ main_pc = "decode"
    /\ arg' = [arg EXCEPT ![1] = main_route_string]
    /\ pc' = [pc EXCEPT ![1] = "enter"]
    /\ main_pc' = "await"
    /\ UNCHANGED <<B64_ALPHABET, argv, fs, input_arg, main_route_string, stdout, locals, returned>>

\* print(json.dumps(result, ...)) once the call has returned; an exception
\* that left the call ends main with a traceback
MainPrint ==
    /\ main_pc = "await"
    /\ pc[1] \in {"done", "raised"}
    /\ IF pc[1] = "done"
       THEN /\ print(Line(<<"json", returned[1][Len(returned[1])]>>))
            /\ main_pc' = "exit"
       ELSE /\ stdout' = stdout
            /\ main_pc' = "traceback"
    /\ UNCHANGED <<B64_ALPHABET, argv, fs, input_arg, main_route_string, arg, pc, locals, returned>>

(***************************************************************************)
(* Specifications.                                                         *)
(***************************************************************************)
Unset(cs) == [c \in cs |-> <<>>]

NoException == [type |-> "", msg |-> ""]

InitCalls(cs) ==
    /\ B64_ALPHABET = AlphabetLiteral
    /\ stdout = EmptyBag
    /\ route_string = Unset(cs)
    /\ encoded_data = Unset(cs)
    /\ compressed_data = Unset(cs)
    /\ decompressed_data = Unset(cs)
    /\ parsed_data = Unset(cs)
    /\ result = Unset(cs)
    /\ e = [c \in cs |-> NoException]
    /\ returned = Unset(cs)

\* one run of the program: main has been entered
Init ==
    /\ InitCalls({1})
    /\ \E s \in DirectStrings \cup Paths :
          /\ argv \in {<<ProgName>>, <<ProgName, s>>, <<ProgName, s, s>>}
          /\ IF Len(argv) = 2 /\ is_file_path(s)
             THEN fs \in FileStates
             ELSE fs = [state |-> "missing", text |-> <<>>]
    /\ main_pc = "start"
    /\ input_arg = <<>>
    /\ main_route_string = <<>>
    /\ arg = Unset({1})
    /\ pc = [c \in {1} |-> "idle"]

Next ==
    \/ MainArgs
    \/ MainInput
    \/ MainDecode
    \/ MainPrint
    \/ \E c \in Calls : DecodeEnter(c)
    \/ \E c \in Calls : DecodeStrip(c)
    \/ \E c \in Calls : DecodeB64(c)
    \/ \E c \in Calls : DecodeDecompress(c)
    \/ \E c \in Calls : DecodeParse(c)
    \/ \E c \in Calls : DecodeAssemble(c)
    \/ \E c \in Calls : DecodeReturn(c)
    \/ \E c \in Calls : DecodeExcept(c)

Spec == Init /\ [][Next]_vars

\* NumCalls threads, each about to call decode_mdt_route_string
InitConc ==
    /\ InitCalls(1..NumCalls)
    /\ argv = <<>>
    /\ fs = [state |-> "missing", text |-> <<>>]
    /\ main_pc = "none"
    /\ input_arg = <<>>
    /\ main_route_string = <<>>
    /\ arg \in [1..NumCalls -> ConcInputs]
    /\ pc = [c \in 1..NumCalls |-> "enter"]

NextConc ==
    \/ \E c \in Calls : DecodeEnter(c)
    \/ \E c \in Calls : DecodeStrip(c)
    \/ \E c \in Calls : DecodeB64(c)
    \/ \E c \in Calls : DecodeDecompress(c)
    \/ \E c \in Calls : DecodeParse(c)
    \/ \E c \in Calls : DecodeAssemble(c)
    \/ \E c \in Calls : DecodeReturn(c)
    \/ \E c \in Calls : DecodeExcept(c)

SpecConc == InitConc /\ [][NextConc]_vars

(***************************************************************************)
(* Properties.                                                             *)
(***************************************************************************)
IsSuccess(r) == DOMAIN r = {"metadata", "route_data"}
IsFailure(r) == DOMAIN r = {"error", "original_string"}

AfterB64 == {"decompress", "parse", "assemble", "return", "except", "raised", "done"}

\* the call's decompression has run and produced bytes
Decompressed(c) ==
    /\ pc[c] \in {"parse", "assemble", "return", "except", "raised", "done"}
    /\ decompress_data(compressed_data[Frame(c)]).kind = "ok"

AfterAssemble == {"return", "except", "raised", "done"}

\* the stage of call c that has failed, from what the stages were given:
\* the decompression of bytes that do not inflate, the deserialization that
\* left an error entry, the assembly for an empty decompressed stream
FailedStage(c) ==
    IF pc[c] \in AfterAssemble
          /\ decompress_data(compressed_data[Frame(c)]).kind = "error"
    THEN "decompress"
    ELSE IF pc[c] \in AfterAssemble
          /\ DOMAIN parsed_data[Frame(c)] # {}
          /\ "error" \in DOMAIN parsed_data[Frame(c)]
    THEN "parse"
    ELSE IF pc[c] \in AfterAssemble /\ Len(decompressed_data[Frame(c)]) = 0
    THEN "assemble"
    ELSE "none"

\* the call's deserializer has run
Parsed(c) == DOMAIN parsed_data[Frame(c)] # {}

ParsingLine == <<"Parsing serialized data...">>

(* C1: every call returns exactly one result, of the success shape or of    *)
(* the failure shape, and no exception leaves the call; a stage that       *)
(* failed gives the failure shape, never a success shape with an error     *)
(* inside; and after a failed stage no later stage has run.                *)
C1_OneResultOfOneShape ==
    /\ main_pc # "traceback"
    /\ \A c \in Calls :
        /\ pc[c] # "raised"
        /\ Len(returned[c]) = (IF pc[c] = "done" THEN 1 ELSE 0)
        /\ e[Frame(c)] # NoException <=> FailedStage(c) # "none"
        /\ FailedStage(c) # "none" => pc[c] \in {"except", "done"}
        /\ pc[c] = "except" => FailedStage(c) # "none"
        /\ FailedStage(c) = "decompress" =>
              /\ decompressed_data[Frame(c)] = <<>>
              /\ ~Parsed(c)
              /\ DOMAIN result[Frame(c)] = {}
              /\ CopiesIn(ParsingLine, stdout) = 0
        /\ FailedStage(c) = "assemble" => DOMAIN result[Frame(c)] = {}
        /\ pc[c] = "done" =>
              LET r == returned[c][1]
              IN  /\ IsSuccess(r) \/ IsFailure(r)
                  /\ ~(IsSuccess(r) /\ IsFailure(r))
                  /\ FailedStage(c) # "none" =>
                        /\ IsFailure(r)
                        /\ r.error = "Failed to decode route string: " \o e[Frame(c)].msg
                  /\ IsSuccess(r) =>
                        /\ FailedStage(c) = "none"
                        /\ "error" \notin DOMAIN r.route_data
                        /\ {"format", "raw_data", "parsed_data"} \subseteq DOMAIN r.route_data

\* a call whose first three stages succeeded and whose assembly failed has
\* returned the failure shape
C1_Witness ==
    \E c \in Calls :
        /\ pc[c] = "done"
        /\ Parsed(c)
        /\ FailedStage(c) = "assemble"
        /\ IsFailure(returned[c][1])

\* the index of a symbol of the alphabet, from the ranges of the alphabet
SymbolIndex(ch) ==
    IF ch >= 97 /\ ch <= 122 THEN ch - 97
    ELSE IF ch >= 65 /\ ch <= 90 THEN ch - 65 + 26
    ELSE IF ch >= 48 /\ ch <= 57 THEN ch - 48 + 52
    ELSE IF ch = 40 THEN 62 ELSE 63

IsSymbol(ch) ==
    \/ ch >= 97 /\ ch <= 122
    \/ ch >= 65 /\ ch <= 90
    \/ ch >= 48 /\ ch <= 57
    \/ ch \in {40, 41}

Symbols(str) == SelectSeq(str, IsSymbol)

\* the reference decoding: bit m of the concatenated 6-bit groups is bit
\* 5 - m % 6 of the index of symbol m \div 6; byte j holds bits 8j .. 8j + 7
ReferenceDecode(str) ==
    LET syms == Symbols(str)
        bit(m) == (SymbolIndex(syms[m \div 6 + 1]) \div 2^(5 - (m % 6))) % 2
        byte(j) == 128 * bit(8 * j) + 64 * bit(8 * j + 1) + 32 * bit(8 * j + 2)
                   + 16 * bit(8 * j + 3) + 8 * bit(8 * j + 4) + 4 * bit(8 * j + 5)
                   + 2 * bit(8 * j + 6) + bit(8 * j + 7)
    IN  [j \in 1..((6 * Len(syms)) \div 8) |-> byte(j - 1)]

InsertAt(str, i, ch) == SubSeq(str, 1, i) \o <<ch>> \o SubSeq(str, i + 1, Len(str))

JunkChars == {Bang, Equals, 32, 10}

(* C2: the bytes decode_custom_b64 yields are the reference decoding of    *)
(* the alphabet characters of its input, floor(6k/8) bytes for k alphabet  *)
(* characters; removing the characters outside the alphabet, or (checked   *)
(* for the inputs of at most MaxLen characters) inserting one anywhere,    *)
(* leaves the output the same.                                             *)
C2_DecodeIsReference ==
    \A c \in Calls :
        pc[c] \in AfterB64 =>
            LET str == encoded_data[Frame(c)]
                out == compressed_data[Frame(c)]
            IN  /\ out = ReferenceDecode(str)
                /\ Len(out) = (6 * Len(Symbols(str))) \div 8
                /\ decode_custom_b64(Symbols(str)) = out
                /\ Len(str) <= MaxLen =>
                      \A i \in 0..Len(str), ch \in JunkChars :
                          decode_custom_b64(InsertAt(str, i, ch)) = out

\* a decoded input with a character outside the alphabet between alphabet
\* characters and leftover bits that were dropped
C2_Witness ==
    \E c \in Calls :
        /\ pc[c] \in AfterB64
        /\ LET str == encoded_data[Frame(c)]
           IN  /\ Len(compressed_data[Frame(c)]) >= 1
               /\ (6 * Len(Symbols(str))) % 8 # 0
               /\ \E i \in 2..(Len(str) - 1) :
                     /\ ~IsSymbol(str[i])
                     /\ IsSymbol(str[i - 1])
                     /\ IsSymbol(str[i + 1])

\* the number of places where p occurs in str
Occurrences(str, p) ==
    Cardinality({i \in 0..(Len(str) - Len(p)) : SubSeq(str, i + 1, i + Len(p)) = p})

\* table-open and table-close markers do not balance
Unbalanced(str) == Occurrences(str, TableOpen) # Occurrences(str, TableClose)

(* C3: a decompressed stream whose table-open and table-close markers are  *)
(* unbalanced never yields a route value: the decode result for it is a    *)
(* failure result.                                                         *)
C3_UnbalancedIsRejected ==
    \A c \in Calls :
        (/\ pc[c] = "done"
         /\ Decompressed(c)
         /\ Unbalanced(latin1_decode(decompressed_data[Frame(c)])))
        => IsFailure(returned[c][1])

(* C4: whenever the alphabet decode and the decompression succeed, for     *)
(* every decompressed length, zero included, the result is a success       *)
(* result whose metadata holds the three lengths and the ratio             *)
(* compressed_length / decompressed_length rounded to two decimals.        *)
C4_SuccessWithMetadata ==
    \A c \in Calls :
        (pc[c] = "done" /\ Decompressed(c)) =>
            LET r == returned[c][1]
                cl == Len(compressed_data[Frame(c)])
                dl == Len(decompressed_data[Frame(c)])
            IN  /\ IsSuccess(r)
                /\ r.metadata.original_length = Len(arg[c])
                /\ r.metadata.compressed_length = cl
                /\ r.metadata.decompressed_length = dl
                /\ dl > 0 =>
                      /\ 2 * dl * r.metadata.compression_ratio >= 200 * cl - dl
                      /\ 2 * dl * r.metadata.compression_ratio <= 200 * cl + dl

SentinelPair(c1, c2) ==
    /\ pc[c1] = "done"
    /\ pc[c2] = "done"
    /\ ~StartsWith(arg[c2], <<Bang>>)
    /\ arg[c1] = <<Bang>> \o arg[c2]

(* C6 (as claimed): '!' + p and p give results equal in every field.       *)
C6_SentinelResultsEqual ==
    \A c1, c2 \in Calls :
        SentinelPair(c1, c2) => returned[c1][1] = returned[c2][1]

(* C6 (amended): '!' + p and p both succeed or both fail; on success       *)
(* compressed_length, decompressed_length, compression_ratio and           *)
(* route_data are equal and original_length is one larger for '!' + p; on  *)
(* failure the error messages are equal and each excerpt is taken from the *)
(* call's own input.  Only a single leading sentinel is stripped.          *)
C6_SentinelResultsAgree ==
    /\ \A c1, c2 \in Calls :
          SentinelPair(c1, c2) =>
              LET r1 == returned[c1][1]
                  r2 == returned[c2][1]
              IN  /\ IsSuccess(r1) <=> IsSuccess(r2)
                  /\ IsFailure(r1) <=> IsFailure(r2)
                  /\ IsSuccess(r1) =>
                        /\ r1.metadata.compressed_length = r2.metadata.compressed_length
                        /\ r1.metadata.decompressed_length = r2.metadata.decompressed_length
                        /\ r1.metadata.compression_ratio = r2.metadata.compression_ratio
                        /\ r1.route_data = r2.route_data
                        /\ r1.metadata.original_length = r2.metadata.original_length + 1
                  /\ IsFailure(r1) =>
                        /\ r1.error = r2.error
                        /\ StartsWith(r1.original_string, <<Bang>>)
                        /\ Len(arg[c1]) <= ExcerptLen =>
                              r1.original_string = <<Bang>> \o r2.original_string
    /\ \A c \in Calls :
          pc[c] \in AfterB64 =>
              /\ StartsWith(arg[c], <<Bang>>) =>
                    encoded_data[Frame(c)] = SubSeq(arg[c], 2, Len(arg[c]))
              /\ ~StartsWith(arg[c], <<Bang>>) => encoded_data[Frame(c)] = arg[c]

\* both calls of a sentinel pair have returned a success result
C6_Witness ==
    \E c1, c2 \in Calls : SentinelPair(c1, c2) /\ IsSuccess(returned[c1][1])

\* the byte sequences whose encodings are among the inputs
EncoderInputs == RoundTripBytes \cup {ZlibStored(p) : p \in Payloads} \cup DamagedStreams

EncodedPairs == {<<EncodeB64(b), b>> : b \in EncoderInputs}

(* C7: decoding the encoding of a byte sequence b returns a prefix of b    *)
(* that is b or b without its last byte; no byte is added or altered.      *)
C7_RoundTrip ==
    \A c \in Calls :
        pc[c] \in AfterB64 =>
            \A p \in EncodedPairs :
                p[1] = encoded_data[Frame(c)] =>
                    LET out == compressed_data[Frame(c)]
                    IN  /\ Len(out) <= Len(p[2])
                        /\ Len(out) >= Len(p[2]) - 1
                        /\ out = SubSeq(p[2], 1, Len(out))

\* the encoding of two or more bytes, its last group zero-filled, decoded
C7_Witness ==
    \E c \in Calls :
        /\ pc[c] \in AfterB64
        /\ \E p \in EncodedPairs :
              /\ p[1] = encoded_data[Frame(c)]
              /\ Len(p[2]) >= 2
              /\ (8 * Len(p[2])) % 6 # 0
              /\ compressed_data[Frame(c)] = p[2]

JsonLines == {l \in BagToSet(stdout) : l[1] = "json"}

DecodingLine == <<"Decoding Base64...">>

\* the argument count is right and the input could be obtained
InputAccepted ==
    /\ Len(argv) = 2
    /\ (\/ EndsWith(argv[2], <<46, 116, 120, 116>>)
        \/ \E i \in 1..Len(argv[2]) : argv[2][i] \in {47, 92})
       => fs.state = "text"

(* C8: main calls decode_mdt_route_string only after the arguments and the *)
(* input were accepted; with a wrong argument count it prints the usage,   *)
(* with a missing or unreadable file it reports the error, and in both     *)
(* cases no decode is called; in every other run the decode is called      *)
(* once and one structured result, the one it returned, is printed after   *)
(* it has returned.                                                        *)
C8_DecodeOnlyAfterAccept ==
    /\ pc[1] # "idle" => InputAccepted
    /\ JsonLines # {} => pc[1] = "done" /\ main_pc = "exit"
    /\ CopiesIn(DecodingLine, stdout) <= 1
    /\ main_pc = "exit" =>
          IF InputAccepted
          THEN /\ pc[1] = "done"
               /\ Len(returned[1]) = 1
               /\ CopiesIn(DecodingLine, stdout) = 1
               /\ JsonLines = {<<"json", returned[1][1]>>}
               /\ CopiesIn(<<"json", returned[1][1]>>, stdout) = 1
          ELSE /\ pc[1] = "idle"
               /\ returned[1] = <<>>
               /\ JsonLines = {}
               /\ CopiesIn(DecodingLine, stdout) = 0
               /\ IF Len(argv) # 2
                  THEN stdout = UsageLines
                  ELSE \/ stdout = SetToBag({<<"Error: File not found", argv[2]>>})
                       \/ stdout = SetToBag({<<"Error reading file">>})

\* a run on a file: the file was read, decoded once and the result printed
C8_Witness ==
    /\ main_pc = "exit"
    /\ Len(argv) = 2
    /\ is_file_path(argv[2])
    /\ fs.state = "text"
    /\ CopiesIn(<<"json", returned[1][1]>>, stdout) = 1

(* C9: the alphabet is never modified, and under every interleaving of     *)
(* concurrent calls each call returns what it returns when run alone on    *)
(* its input.                                                              *)
C9_CallsIndependent ==
    /\ B64_ALPHABET = AlphabetLiteral
    /\ \A c \in Calls :
          pc[c] = "done" => returned[c] = <<decode_mdt_route_string(arg[c])>>

\* one call has returned while another, made with another input, is between
\* two of its stages
C9_Witness ==
    \E c1, c2 \in Calls :
        /\ pc[c1] = "done"
        /\ pc[c2] = "parse"
        /\ arg[c1] # arg[c2]

OptionalKeys == {"contains_week_info", "contains_objects", "contains_pulls"}

(* C10: parse_ace_serialized_data removes the header '\x01\x00' once when  *)
(* the text starts with it, and returns a dict with 'format', 'raw_data'   *)
(* and 'parsed_data' and with each of 'contains_week_info',                *)
(* 'contains_objects', 'contains_pulls' (true) exactly when 'week',        *)
(* 'objects', 'pulls' occurs in the header-stripped text.                  *)
C10_ParseKeys ==
    \A c \in Calls :
        Parsed(c) =>
            LET d == latin1_decode(decompressed_data[Frame(c)])
                t == IF Len(d) >= 2 /\ d[1] = 1 /\ d[2] = 0 THEN SubSeq(d, 3, Len(d)) ELSE d
                p == parsed_data[Frame(c)]
            IN  /\ {"format", "raw_data", "parsed_data"} \subseteq DOMAIN p
                /\ DOMAIN p \subseteq {"format", "raw_data", "parsed_data"} \cup OptionalKeys
                /\ p.format = "AceSerializer"
                /\ p.raw_data = unicode_escape(t)
                /\ \A k \in DOMAIN p \cap OptionalKeys : p[k] = TRUE
                /\ "contains_week_info" \in DOMAIN p <=> Occurrences(t, <<119, 101, 101, 107>>) > 0
                /\ "contains_objects" \in DOMAIN p
                      <=> Occurrences(t, <<111, 98, 106, 101, 99, 116, 115>>) > 0
                /\ "contains_pulls" \in DOMAIN p <=> Occurrences(t, <<112, 117, 108, 108, 115>>) > 0

\* a text of two headers and nothing else was parsed: one header is left
C10_Witness ==
    \E c \in Calls :
        /\ Parsed(c)
        /\ decompressed_data[Frame(c)] = <<1, 0, 1, 0>>
        /\ parsed_data[Frame(c)].raw_data = unicode_escape(<<1, 0>>)

=============================================================================
